---------------------------- MODULE Spec2Model ----------------------------
(***************************************************************************)
(* Model of the Lyric Trigger plugin (src/main.py).                        *)
(*                                                                         *)
(* A Python str is a sequence of characters; a character is a one-element  *)
(* string, and a non-ASCII character is written by its code point          *)
(* ("U+4F5C").  A float in [0,1] produced by SequenceMatcher.ratio() is    *)
(* the exact rational 2*M/T, kept as the pair [num |-> 2*M, den |-> T];    *)
(* with T below 400 two different such rationals never round to the same   *)
(* double, so comparing the rationals is comparing the floats.             *)
(***************************************************************************)
EXTENDS Integers, Sequences, FiniteSets, TLC

VARIABLES
    fcall,      \* the pure function under call: its arguments and return value
    supplied,   \* the config dict handed to Main.__init__
    stage,      \* lifecycle of the plugin object
    config,     \* self.config after _validate_and_set_config
    api,        \* self.api: "None" until initialize()
    pc,         \* per invocation of cmd_lyric_match: the await it is suspended at
    text,       \* per invocation: lyric_text / user_text
    songs,      \* per invocation: `songs`, the list search_songs returned
    idx,        \* per invocation: position in `songs` of the loop's current song
    lines,      \* per invocation: `lines` of the current loop iteration
    result,     \* per invocation: outcome of find_matching_lyric
    sent,       \* per invocation: the messages passed to event.send, in order
    calls,      \* per invocation: the requests it issued to the remote service,
                \* and whether it asks for a line the invocation before it matched
    remote,     \* the remote service: which catalog of songs and lyrics it serves
    inflight    \* how many invocations the host runs at the same time

vars == <<fcall, supplied, stage, config, api, pc, text, songs, idx, lines,
          result, sent, calls, remote, inflight>>

-----------------------------------------------------------------------------
(* Bounds of the model *)

MaxStrLen == 3      \* longest first argument of calculate_similarity
MaxOtherLen == 2    \* longest unrelated second argument
MaxPieces == 3      \* pieces a raw lyric text is assembled from
MaxLines == 3       \* lyric lines of a song in the catalog
MaxSongs == 2       \* candidates in one search response

-----------------------------------------------------------------------------
(* Strings *)

RECURSIVE SeqsUpTo(_, _)
SeqsUpTo(S, n) ==
    IF n = 0 THEN {<< >>}
    ELSE LET shorter == SeqsUpTo(S, n - 1)
         IN  shorter \cup {Append(s, c) : s \in shorter, c \in S}

RECURSIVE Concat(_)
Concat(ss) == IF ss = << >> THEN << >> ELSE Head(ss) \o Concat(Tail(ss))

StartsWith(s, prefix) ==
    /\ Len(prefix) <= Len(s)
    /\ SubSeq(s, 1, Len(prefix)) = prefix

\* str.lower() on the alphabet of the model
LowerChar(c) ==
    CASE c = "A" -> "a"
      [] c = "B" -> "b"
      [] c = "L" -> "l"
      [] c = "O" -> "o"
      [] c = "T" -> "t"
      [] c = "X" -> "x"
      [] OTHER -> c

Lower(s) == [i \in 1..Len(s) |-> LowerChar(s[i])]

\* str.replace(" ", "")
RemoveSpaces(s) == SelectSeq(s, LAMBDA c : c # " ")

\* the characters of the model that str.strip() removes
Whitespace == {" ", "\t", "\r", "\n", "U+3000"}

RECURSIVE LStrip(_)
LStrip(s) ==
    IF s # << >> /\ Head(s) \in Whitespace THEN LStrip(Tail(s)) ELSE s

RECURSIVE RStrip(_)
RStrip(s) ==
    IF s # << >> /\ s[Len(s)] \in Whitespace
    THEN RStrip(SubSeq(s, 1, Len(s) - 1))
    ELSE s

Strip(s) == RStrip(LStrip(s))

-----------------------------------------------------------------------------
(* difflib.SequenceMatcher(None, a, b).ratio()                             *)
(* Indices are Python's: a[i] of the code is a[i + 1] here.                *)

Count(b, c) == Cardinality({j \in 1..Len(b) : b[j] = c})

\* __chain_b: with autojunk, elements of b occurring more than n // 100 + 1
\* times are dropped from b2j when n >= 200
Popular(b) ==
    IF Len(b) >= 200
    THEN {c \in {b[j] : j \in 1..Len(b)} : Count(b, c) > (Len(b) \div 100) + 1}
    ELSE {}

\* a[i : i + k] == b[j : j + k], every element of it indexed by b2j
IsBlock(a, b, pop, i, j, k) ==
    \A d \in 0..(k - 1) : a[i + d + 1] = b[j + d + 1] /\ b[j + d + 1] \notin pop

RECURSIVE ExtendBack(_, _, _, _, _)
ExtendBack(a, b, alo, blo, m) ==
    IF m.i > alo /\ m.j > blo /\ a[m.i] = b[m.j]
    THEN ExtendBack(a, b, alo, blo, [i |-> m.i - 1, j |-> m.j - 1, k |-> m.k + 1])
    ELSE m

RECURSIVE ExtendFwd(_, _, _, _, _)
ExtendFwd(a, b, ahi, bhi, m) ==
    IF m.i + m.k < ahi /\ m.j + m.k < bhi /\ a[m.i + m.k + 1] = b[m.j + m.k + 1]
    THEN ExtendFwd(a, b, ahi, bhi, [m EXCEPT !.k = m.k + 1])
    ELSE m

\* find_longest_match: the longest block of a[alo:ahi] and b[blo:bhi]; of the
\* longest ones the one starting earliest in a, and of those the one starting
\* earliest in b; then extended over the elements b2j does not index (there
\* is no junk, isjunk being None)
FindLongestMatch(a, b, alo, ahi, blo, bhi) ==
    LET pop == Popular(b)
        blocks == {m \in [i : alo..(ahi - 1), j : blo..(bhi - 1), k : 1..(ahi - alo)] :
                     /\ m.i + m.k <= ahi
                     /\ m.j + m.k <= bhi
                     /\ IsBlock(a, b, pop, m.i, m.j, m.k)}
        longest == {m \in blocks : \A o \in blocks : o.k <= m.k}
        firstA == {m \in longest : \A o \in longest : m.i <= o.i}
        best == IF blocks = {}
                THEN [i |-> alo, j |-> blo, k |-> 0]
                ELSE CHOOSE m \in firstA : \A o \in firstA : m.j <= o.j
    IN  ExtendFwd(a, b, ahi, bhi, ExtendBack(a, b, alo, blo, best))

\* get_matching_blocks: the sum of the sizes of the blocks found by splitting
\* around the longest match, left and right
RECURSIVE Matches(_, _, _, _, _, _)
Matches(a, b, alo, ahi, blo, bhi) ==
    LET m == FindLongestMatch(a, b, alo, ahi, blo, bhi)
    IN  IF m.k = 0 THEN 0
        ELSE m.k
             + (IF alo < m.i /\ blo < m.j
                THEN Matches(a, b, alo, m.i, blo, m.j) ELSE 0)
             + (IF m.i + m.k < ahi /\ m.j + m.k < bhi
                THEN Matches(a, b, m.i + m.k, ahi, m.j + m.k, bhi) ELSE 0)

Zero == [num |-> 0, den |-> 1]

\* _calculate_ratio(matches, length): 2.0 * matches / length, 1.0 for length 0
Ratio(a, b) ==
    IF Len(a) + Len(b) = 0
    THEN [num |-> 1, den |-> 1]
    ELSE [num |-> 2 * Matches(a, b, 0, Len(a), 0, Len(b)), den |-> Len(a) + Len(b)]

\* r1 >= r2 on the rationals
GE(r1, r2) == r1.num * r2.den >= r2.num * r1.den

IsOne(r) == r.num = r.den
IsZero(r) == r.num = 0

\* calculate_similarity folding the case of its first argument only
calculate_similarity_onefold(str1, str2) ==
    IF str1 = << >> \/ str2 = << >> THEN Zero
    ELSE LET str1_clean == RemoveSpaces(Lower(str1))
             str2_clean == RemoveSpaces(str2)
         IN  IF str1_clean = << >> \/ str2_clean = << >> THEN Zero
             ELSE Ratio(str1_clean, str2_clean)

calculate_similarity(str1, str2) ==
    IF str1 = << >> \/ str2 = << >> THEN Zero
    ELSE LET str1_clean == RemoveSpaces(Lower(str1))
             str2_clean == RemoveSpaces(Lower(str2))
         IN  IF str1_clean = << >> \/ str2_clean = << >> THEN Zero
             ELSE Ratio(str1_clean, str2_clean)

-----------------------------------------------------------------------------
(* NeteaseLyricsAPI.parse_lyrics *)

Digits == {"0", "1", "2", "3", "4", "5", "6", "7", "8", "9"}

\* s[i] of Python, "" past the end
At(s, i) == IF i < Len(s) THEN s[i + 1] ELSE ""

RECURSIVE DigitRun(_, _)
DigitRun(s, i) == IF At(s, i) \in Digits THEN 1 + DigitRun(s, i + 1) ELSE 0

\* re.match of \[\d{2}:\d{2}(:\d{2})?\.?\d*\] at index i: the length of the
\* match, 0 for none.  The greedy choices are the only ones that can match:
\* after giving up the group, the dot or a digit, the next thing the pattern
\* accepts is never ':', '.' or a digit where one was given up.
MatchTimestamp(s, i) ==
    IF /\ At(s, i) = "["
       /\ At(s, i + 1) \in Digits /\ At(s, i + 2) \in Digits
       /\ At(s, i + 3) = ":"
       /\ At(s, i + 4) \in Digits /\ At(s, i + 5) \in Digits
    THEN LET j0 == i + 6
             j1 == IF /\ At(s, j0) = ":"
                      /\ At(s, j0 + 1) \in Digits /\ At(s, j0 + 2) \in Digits
                   THEN j0 + 3 ELSE j0
             j2 == IF At(s, j1) = "." THEN j1 + 1 ELSE j1
             j3 == j2 + DigitRun(s, j2)
         IN  IF At(s, j3) = "]" THEN j3 + 1 - i ELSE 0
    ELSE 0

\* re.sub(pattern, '', line): leftmost matches, not overlapping
RECURSIVE RemoveTimestamps(_, _)
RemoveTimestamps(s, i) ==
    IF i >= Len(s) THEN << >>
    ELSE LET n == MatchTimestamp(s, i)
         IN  IF n > 0 THEN RemoveTimestamps(s, i + n)
             ELSE <<s[i + 1]>> \o RemoveTimestamps(s, i + 1)

\* str.split('\n')
RECURSIVE SplitLines(_, _)
SplitLines(s, acc) ==
    IF s = << >> THEN <<acc>>
    ELSE IF Head(s) = "\n" THEN <<acc>> \o SplitLines(Tail(s), << >>)
    ELSE SplitLines(Tail(s), Append(acc, Head(s)))

parse_lyrics(lyric_text) ==
    IF lyric_text = << >> THEN << >>
    ELSE LET raw == SplitLines(lyric_text, << >>)
             cleaned == [n \in 1..Len(raw) |-> Strip(RemoveTimestamps(raw[n], 0))]
         IN  SelectSeq(cleaned, LAMBDA c : c # << >>)

-----------------------------------------------------------------------------
(* Main._extract_lyric_from_command *)

\* COMMAND_PREFIXES, sorted(key=len, reverse=True); the sort is stable, so the
\* two prefixes of five characters keep their order
SortedPrefixes ==
    << <<"/", "l", "y", "r", "i", "c", "m", "a", "t", "c", "h">>,
       <<"/", "l", "y", "r", "i", "c">>,
       <<"/", "U+6B4C", "U+8BCD", "U+5339", "U+914D">>,
       <<"/", "U+5339", "U+914D", "U+6B4C", "U+8BCD">> >>

RECURSIVE ExtractWith(_, _)
ExtractWith(prefixes, message) ==
    IF prefixes = << >> THEN message
    ELSE IF StartsWith(message, Head(prefixes))
         THEN Strip(SubSeq(message, Len(Head(prefixes)) + 1, Len(message)))
         ELSE ExtractWith(Tail(prefixes), message)

extract_lyric_from_command(message) == ExtractWith(SortedPrefixes, message)

-----------------------------------------------------------------------------
(* Configuration: Main.__init__ and Main._validate_and_set_config          *)
(*                                                                         *)
(* A config value carries its Python type.  A number is kept times ten     *)
(* (x10), so that 0.6 is 6 and the int 5 is 50; NaN is a float that no     *)
(* comparison accepts.                                                     *)

Absent == [t |-> "absent"]
PyStr(chars) == [t |-> "str", s |-> chars]
PyInt(n) == [t |-> "int", x10 |-> 10 * n]
PyFloat(tenths) == [t |-> "float", x10 |-> tenths]
PyBool(b) == [t |-> "bool", x10 |-> IF b THEN 10 ELSE 0]
NaN == [t |-> "nan"]
NoneConfig == [t |-> "none"]

DEFAULT_API_URL ==
    PyStr(<<"h", "t", "t", "p", ":", "/", "/", "1", "2", "7", ".", "0", ".", "0",
          ".", "1", ":", "3", "0", "0", "0">>)

DEFAULT_SIMILARITY_THRESHOLD == PyFloat(6)

DEFAULT_MAX_SEARCH_RESULTS == PyInt(5)

DEFAULT_TRIGGER_PROMPT ==
    PyStr(<<"U+6B4C", "U+8BCD", "U+FF1A", "'", "{", "l", "y", "r", "i", "c", "}",
          "'", "U+FF0C", "U+4E0B", "U+4E00", "U+53E5", "U+662F", "U+FF1A", "'",
          "{", "n", "e", "x", "t", "_", "l", "i", "n", "e", "}", "'", "U+3002",
          "U+8BF7", "U+8F93", "U+51FA", "U+540E", "U+534A", "U+53E5", "U+6B4C",
          "U+8BCD", "U+FF0C", "U+5E76", "U+7B80", "U+77ED", "U+5730", "U+8868",
          "U+8FBE", "U+4F60", "U+7684", "U+60C5", "U+611F", "U+3002">>)

Http == <<"h", "t", "t", "p", ":", "/", "/">>
Https == <<"h", "t", "t", "p", "s", ":", "/", "/">>

\* self.config.get(key, default)
ConfigGet(cfg, key, default) == IF cfg[key] = Absent THEN default ELSE cfg[key]

\* isinstance(v, (int, float)): bool is a subclass of int
IsIntOrFloat(v) == v.t \in {"int", "float", "bool", "nan"}

\* isinstance(v, int)
IsInt(v) == v.t \in {"int", "bool"}

\* float(v)
ToFloat(v) == IF v.t = "nan" THEN v ELSE PyFloat(v.x10)

\* 0.0 <= v <= 1.0
InUnitInterval(v) == v.t # "nan" /\ 0 <= v.x10 /\ v.x10 <= 10

\* a validation that brings an out-of-range threshold into [0, 1]
ClampedThreshold(v) ==
    IF v.t = "nan" \/ v.x10 < 0 THEN PyFloat(0)
    ELSE IF v.x10 > 10 THEN PyFloat(10) ELSE PyFloat(v.x10)

EmptyConfig ==
    [api_url |-> Absent, similarity_threshold |-> Absent,
     max_search_results |-> Absent, trigger_prompt |-> Absent]

\* _validate_and_set_config accepting any number as the threshold
validate_clamping(cfg) ==
    LET api_url == ConfigGet(cfg, "api_url", DEFAULT_API_URL)
        threshold == ConfigGet(cfg, "similarity_threshold", DEFAULT_SIMILARITY_THRESHOLD)
        max_results == ConfigGet(cfg, "max_search_results", DEFAULT_MAX_SEARCH_RESULTS)
        trigger_prompt == ConfigGet(cfg, "trigger_prompt", DEFAULT_TRIGGER_PROMPT)
    IN  IF api_url.t # "str"
           \/ ~(StartsWith(api_url.s, Http) \/ StartsWith(api_url.s, Https))
        THEN [ok |-> FALSE, error |-> "api_url"]
        ELSE IF ~IsIntOrFloat(threshold) \/ threshold.t = "nan"
        THEN [ok |-> FALSE, error |-> "similarity_threshold"]
        ELSE IF ~IsInt(max_results) \/ max_results.x10 < 10
        THEN [ok |-> FALSE, error |-> "max_search_results"]
        ELSE IF trigger_prompt.t # "str" \/ Strip(trigger_prompt.s) = << >>
        THEN [ok |-> FALSE, error |-> "trigger_prompt"]
        ELSE [ok |-> TRUE,
              config |-> [api_url |-> api_url,
                          similarity_threshold |-> ClampedThreshold(threshold),
                          max_search_results |-> max_results,
                          trigger_prompt |-> trigger_prompt]]

\* _validate_and_set_config: the ValueError it raises, or the config it leaves
validate_and_set_config(cfg) ==
    LET api_url == ConfigGet(cfg, "api_url", DEFAULT_API_URL)
        threshold == ConfigGet(cfg, "similarity_threshold", DEFAULT_SIMILARITY_THRESHOLD)
        max_results == ConfigGet(cfg, "max_search_results", DEFAULT_MAX_SEARCH_RESULTS)
        trigger_prompt == ConfigGet(cfg, "trigger_prompt", DEFAULT_TRIGGER_PROMPT)
    IN  IF api_url.t # "str"
           \/ ~(StartsWith(api_url.s, Http) \/ StartsWith(api_url.s, Https))
        THEN [ok |-> FALSE, error |-> "api_url"]
        ELSE IF ~IsIntOrFloat(threshold) \/ ~InUnitInterval(threshold)
        THEN [ok |-> FALSE, error |-> "similarity_threshold"]
        ELSE IF ~IsInt(max_results) \/ max_results.x10 < 10
        THEN [ok |-> FALSE, error |-> "max_search_results"]
        ELSE IF trigger_prompt.t # "str" \/ Strip(trigger_prompt.s) = << >>
        THEN [ok |-> FALSE, error |-> "trigger_prompt"]
        ELSE [ok |-> TRUE,
              config |-> [api_url |-> api_url,
                          similarity_threshold |-> ToFloat(threshold),
                          max_search_results |-> max_results,
                          trigger_prompt |-> trigger_prompt]]

\* self.config = config or {}
OrEmpty(cfg) == IF cfg = NoneConfig THEN EmptyConfig ELSE cfg

\* api_url.rstrip("/")
RECURSIVE RStripSlash(_)
RStripSlash(s) ==
    IF s # << >> /\ s[Len(s)] = "/" THEN RStripSlash(SubSeq(s, 1, Len(s) - 1)) ELSE s

H == <<"h">>

\* the config dicts a host may hand to the constructor
SuppliedConfigs ==
    {NoneConfig} \cup
    [api_url : {Absent, PyStr(Http \o H), PyStr(Https \o H \o <<"/">>),
                PyStr(<<"f", "t", "p", ":", "/", "/">> \o H), PyStr(<< >>), PyInt(3000)},
     similarity_threshold : {Absent, PyFloat(-1), PyInt(0), PyFloat(6), PyInt(1), PyFloat(11),
                             PyInt(2), PyBool(TRUE), NaN, PyStr(<<"0", ".", "6">>)},
     max_search_results : {Absent, PyInt(-1), PyInt(0), PyInt(1), PyInt(3), PyFloat(20),
                           PyBool(TRUE), PyBool(FALSE), PyStr(<<"5">>)},
     trigger_prompt : {Absent, PyStr(<<"{", "l", "y", "r", "i", "c", "}">>),
                       PyStr(<<" ">>), PyStr(<< >>), PyInt(0)}]

-----------------------------------------------------------------------------
(* Values of a JSON response body *)

PyNone == [t |-> "None"]
PyList(elems) == [t |-> "list", v |-> elems]
PyDict(fields) == [t |-> "dict", d |-> fields]

\* bool(v)
Truthy(v) ==
    CASE v.t = "None" -> FALSE
      [] v.t = "absent" -> FALSE
      [] v.t = "list" -> v.v # << >>
      [] v.t = "str" -> v.s # << >>
      [] v.t = "dict" -> DOMAIN v.d # {}
      [] OTHER -> v.x10 # 0

\* d.get(key, default)
DictGet(e, key, default) == IF key \in DOMAIN e.d THEN e.d[key] ELSE default

UnknownSong == PyStr(<<"U+672A", "U+77E5", "U+6B4C", "U+66F2">>)

-----------------------------------------------------------------------------
(* NeteaseLyricsAPI.search_songs and get_lyrics: what each returns for a   *)
(* response of the remote service                                          *)

\* the ways a request fails: a status other than 200, aiohttp.ClientError,
\* asyncio.TimeoutError, a body r.json() rejects, a body that is no object
FailureKinds == {"status", "client_error", "timeout", "bad_json", "not_object"}

search_songs(resp) ==
    IF resp.kind \in FailureKinds THEN PyList(<< >>) ELSE resp.songs

get_lyrics(resp) ==
    IF resp.kind \in FailureKinds THEN PyNone
    ELSE IF Truthy(resp.lyric) THEN PyDict([lrc |-> PyDict([lyric |-> resp.lyric])])
    ELSE PyNone

-----------------------------------------------------------------------------
(* Main.cmd_lyric_match and Main._get_llm_response: the messages sent      *)

\* cmd_lyric_match after find_matching_lyric returned None or raised
AfterFind(res) ==
    IF res.kind = "none" THEN <<"no_match">> ELSE <<"failed">>

\* _get_llm_response after get_current_chat_provider_id
AfterProvider(r) ==
    CASE r = "raise" -> [pc |-> "done", send |-> <<"llm_failed">>]
      [] r = "none" -> [pc |-> "done", send |-> <<"no_provider">>]
      [] OTHER -> [pc |-> "persona", send |-> << >>]

\* _get_llm_response after get_default_persona_v3
AfterPersona(r) ==
    IF r = "raise" THEN [pc |-> "done", send |-> <<"llm_failed">>]
    ELSE [pc |-> "llm", send |-> << >>]

\* an _get_llm_response that reports a failed LLM call and raises it again
after_llm_reraising(r) ==
    CASE r = "raise" -> <<"llm_failed", "failed">>
      [] r \in {"none", "empty"} -> <<"llm_empty">>
      [] OTHER -> <<"completion">>

\* _get_llm_response after llm_generate
AfterLlm(r) ==
    CASE r = "raise" -> <<"llm_failed">>
      [] r \in {"none", "empty"} -> <<"llm_empty">>
      [] OTHER -> <<"completion">>

-----------------------------------------------------------------------------
(* The inputs *)

Procs == {1, 2}

Alphabet == {"a", "A", "b", " "}

Strings == SeqsUpTo(Alphabet, MaxStrLen)

OtherStrings == SeqsUpTo(Alphabet, MaxOtherLen)

Timestamp == <<"[", "0", "0", ":", "0", "1", ".", "2", "3", "]">>

MetadataLabel == <<"U+4F5C", "U+8BCD", "U+FF1A">>

\* the example of the specification
ExampleLyric ==
    <<"[", "0", "0", ":", "0", "1", ".", "2", "3", "]", "L", "i", "n", "e",
      " ", "O", "n", "e", "\n", "U+4F5C", "U+8BCD", "U+FF1A", "X", "\n", "[",
      "0", "0", ":", "0", "5", ".", "0", "0", "]", "L", "i", "n", "e", " ",
      "T", "w", "o">>

Pieces ==
    {Timestamp,
     <<"[", "0", "0", ":", "0", "5", ":", "0", "0", "]">>,
     <<"[", "0", ":", "1", "]">>,
     <<"a">>, <<" ">>, <<"\n">>, MetadataLabel}

LyricTexts ==
    {ExampleLyric} \cup {Concat(ps) : ps \in SeqsUpTo(Pieces, MaxPieces)}

LineSet == {<<"A", " ", "b">>, <<"b">>, <<"c">>}

\* an LRC body: every line under a timestamp
RECURSIVE Lrc(_)
Lrc(ls) ==
    IF ls = << >> THEN << >>
    ELSE Timestamp \o Head(ls) \o (IF Len(ls) > 1 THEN <<"\n">> ELSE << >>) \o Lrc(Tail(ls))

Song1 == PyDict([id |-> PyInt(1), name |-> PyStr(<<"n">>)])
Song2 == PyDict([id |-> PyInt(2)])
SongNoId == PyDict([name |-> PyStr(<<"n">>)])
NotASong == PyStr(<<"x">>)

\* everything the service can answer a search with
FullResults ==
    {PyList(l) : l \in SeqsUpTo({Song1, Song2, SongNoId, NotASong}, MaxSongs)}
    \cup {PyNone, PyInt(7)}

\* everything the service can answer a lyric request with
FullLyrics ==
    {PyStr(Lrc(ls)) : ls \in SeqsUpTo(LineSet, MaxLines)}
    \cup {Absent, PyInt(7), PyStr(<<" ">>)}

\* a service that holds one song of two lines
SmallResults == {PyList(<<Song1>>)}

SmallLyrics == {PyStr(Lrc(<<<<"A", " ", "b">>, <<"c">>>>))}

RemoteResults == IF remote = "full" THEN FullResults ELSE SmallResults

RemoteLyrics == IF remote = "full" THEN FullLyrics ELSE SmallLyrics

\* lines = self.api.parse_lyrics(lyric_text), for every text the service holds
ParsedLyrics ==
    [ly \in {l \in FullLyrics \cup SmallLyrics : l.t = "str"} |->
       parse_lyrics(ly.s)]

SearchResponses ==
    [kind : FailureKinds] \cup [kind : {"ok"}, songs : RemoteResults]

LyricsResponses ==
    [kind : FailureKinds] \cup [kind : {"ok"}, lyric : RemoteLyrics]

Lyric == <<"/", "l", "y", "r", "i", "c">>

Messages ==
    {<< >>, Lyric, Lyric \o <<"m", "a", "t", "c", "h", " ">>,
     Lyric \o <<" ", "a", "B">>,
     Lyric \o <<"m", "a", "t", "c", "h", " ", "b">>,
     <<"a", "B">>,
     <<"/", "U+6B4C", "U+8BCD", "U+5339", "U+914D", " ", "b", " ">>}

\* the configs the plugin is run with
RunConfigs ==
    [api_url : {Absent},
     similarity_threshold : {Absent, PyInt(0), PyInt(1)},
     max_search_results : {PyInt(1)},
     trigger_prompt : {Absent}]

-----------------------------------------------------------------------------
(* Main.find_matching_lyric *)

Threshold == [num |-> config.similarity_threshold.x10, den |-> 10]

Limit == config.max_search_results.x10 \div 10

\* the texts a command can carry and the lyric lines the service can serve
UserTexts == {extract_lyric_from_command(m) : m \in Messages}

LyricLines ==
    UNION {{ParsedLyrics[ly][n] : n \in 1..Len(ParsedLyrics[ly])} :
             ly \in DOMAIN ParsedLyrics}

\* similarity = self.calculate_similarity(user_text, line), for each of them
Similarity ==
    [user_text \in UserTexts, line \in LyricLines |->
       calculate_similarity(user_text, line)]

\* similarity >= self.config["similarity_threshold"]
Hit(user_text, line) == GE(Similarity[user_text, line], Threshold)

\* a scan returning the best-scoring line instead of the first one
RECURSIVE ScanBest(_, _, _, _)
ScanBest(user_text, ls, i, best) ==
    IF i >= Len(ls) THEN best
    ELSE IF Hit(user_text, ls[i])
            /\ (best = 0 \/ ~GE(Similarity[user_text, ls[best]],
                                Similarity[user_text, ls[i]]))
         THEN ScanBest(user_text, ls, i + 1, i)
         ELSE ScanBest(user_text, ls, i + 1, best)

scan_best(user_text, ls) == ScanBest(user_text, ls, 1, 0)

\* for i, line in enumerate(lines[:-1]): the position of the first line whose
\* similarity reaches the threshold, 0 when the loop ends without a return
RECURSIVE ScanFrom(_, _, _)
ScanFrom(user_text, ls, i) ==
    IF i >= Len(ls) THEN 0
    ELSE IF Hit(user_text, ls[i]) THEN i
    ELSE ScanFrom(user_text, ls, i + 1)

scan_lines(user_text, ls) == ScanFrom(user_text, ls, 1)

Pending == [kind |-> "pending"]
NotCalled == [kind |-> "not_called"]
ReturnedNone == [kind |-> "none"]
Raised(exc) == [kind |-> "raised", exc |-> exc]
Match(song_name, line, next_line, song_id) ==
    [kind |-> "match", song_name |-> song_name, line |-> line,
     next_line |-> next_line, song_id |-> song_id]

\* the head of the for loop, entered after the song at position i: where
\* the loop next suspends or leaves
RECURSIVE NextProbe(_, _)
NextProbe(found, i) ==
    IF i >= Len(found) THEN [k |-> "exhausted", idx |-> i]
    ELSE IF found[i + 1].t # "dict" THEN [k |-> "raise", idx |-> i + 1]
    ELSE IF ~Truthy(DictGet(found[i + 1], "id", PyNone)) THEN NextProbe(found, i + 1)
    ELSE [k |-> "fetch", idx |-> i + 1]

-----------------------------------------------------------------------------
(* The state after construction *)

NoCall == [fn |-> "none"]
Unset == [t |-> "unset"]
NoCalls == [search |-> 0, fetch |-> 0, known |-> FALSE]

Idle ==
    /\ pc = [p \in Procs |-> "idle"]
    /\ text = [p \in Procs |-> << >>]
    /\ songs = [p \in Procs |-> << >>]
    /\ idx = [p \in Procs |-> 0]
    /\ lines = [p \in Procs |-> << >>]
    /\ result = [p \in Procs |-> NotCalled]
    /\ sent = [p \in Procs |-> << >>]
    /\ calls = [p \in Procs |-> NoCalls]

\* a plugin constructed from a valid config, not yet initialized; the host
\* runs one invocation of the handler at a time
Init ==
    /\ fcall = NoCall
    /\ supplied \in RunConfigs
    /\ validate_and_set_config(supplied).ok
    /\ config = validate_and_set_config(supplied).config
    /\ stage = "constructed"
    /\ api = PyNone
    /\ remote = "full"
    /\ inflight = 1
    /\ Idle

\* the same plugin under a host that interleaves two invocations
InitConc ==
    /\ fcall = NoCall
    /\ supplied = EmptyConfig
    /\ config = validate_and_set_config(supplied).config
    /\ stage = "constructed"
    /\ api = PyNone
    /\ remote = "small"
    /\ inflight = 2
    /\ Idle

\* before Main.__init__, for every config a host may supply
InitCfg ==
    /\ fcall = NoCall
    /\ supplied \in SuppliedConfigs
    /\ config = Unset
    /\ stage = "new"
    /\ api = Unset
    /\ remote = "small"
    /\ inflight = 1
    /\ Idle

-----------------------------------------------------------------------------
(* Main.__init__ and Main.initialize *)

Construct ==
    /\ stage = "new"
    /\ LET v == validate_and_set_config(OrEmpty(supplied))
       IN  IF v.ok
           THEN stage' = "constructed" /\ config' = v.config /\ api' = PyNone
           ELSE stage' = "failed" /\ UNCHANGED <<config, api>>
    /\ UNCHANGED <<fcall, supplied, pc, text, songs, idx, lines, result, sent,
                   calls, remote, inflight>>

Initialize ==
    /\ stage = "constructed"
    /\ stage' = "initialized"
    /\ api' = [t |-> "NeteaseLyricsAPI", base_url |-> RStripSlash(config.api_url.s)]
    /\ UNCHANGED <<fcall, supplied, config, pc, text, songs, idx, lines, result,
                   sent, calls, remote, inflight>>

-----------------------------------------------------------------------------
(* Main.cmd_lyric_match, one action per stretch between two awaits *)

Free(p) == pc[p] \in {"idle", "done"}

Awaiting == {p \in Procs : ~Free(p)}

\* find_matching_lyric returns or raises, and cmd_lyric_match goes on to its
\* next await or to its end
Finish(p, res) ==
    /\ result' = [result EXCEPT ![p] = res]
    /\ IF res.kind = "match"
       THEN \* safe_format_prompt returns the template when formatting raises
            pc' = [pc EXCEPT ![p] = "provider"] /\ UNCHANGED sent
       ELSE /\ pc' = [pc EXCEPT ![p] = "done"]
            /\ sent' = [sent EXCEPT ![p] = sent[p] \o AfterFind(res)]
    /\ UNCHANGED calls

\* the for loop over `found` goes on after position i: to its next
\* get_lyrics, or to its end
Continue(p, found, i) ==
    LET n == NextProbe(found, i)
    IN  /\ idx' = [idx EXCEPT ![p] = n.idx]
        /\ CASE n.k = "fetch" ->
                  /\ pc' = [pc EXCEPT ![p] = "lyrics"]
                  /\ calls' = [calls EXCEPT ![p].fetch = @ + 1]
                  /\ UNCHANGED <<result, sent>>
             [] n.k = "raise" -> Finish(p, Raised("AttributeError: get"))
             [] OTHER -> Finish(p, ReturnedNone)

Invoke(p) ==
    /\ stage \in {"constructed", "initialized"}
    /\ Free(p)
    /\ \A q \in Procs : q < p => ~Free(q)
    /\ Cardinality(Awaiting) < inflight
    /\ \E message \in Messages :
         LET lyric_text == extract_lyric_from_command(message)
         IN  /\ text' = [text EXCEPT ![p] = lyric_text]
             /\ songs' = [songs EXCEPT ![p] = << >>]
             /\ idx' = [idx EXCEPT ![p] = 0]
             /\ lines' = [lines EXCEPT ![p] = << >>]
             /\ IF lyric_text = << >>
                THEN /\ pc' = [pc EXCEPT ![p] = "done"]
                     /\ sent' = [sent EXCEPT ![p] = <<"usage">>]
                     /\ result' = [result EXCEPT ![p] = NotCalled]
                     /\ calls' = [calls EXCEPT ![p] = NoCalls]
                ELSE IF api.t = "None"
                THEN /\ pc' = [pc EXCEPT ![p] = "done"]
                     /\ result' = [result EXCEPT ![p] =
                                     Raised("AttributeError: search_songs")]
                     /\ sent' = [sent EXCEPT ![p] =
                                   AfterFind(Raised("AttributeError: search_songs"))]
                     /\ calls' = [calls EXCEPT ![p] = NoCalls]
                ELSE /\ pc' = [pc EXCEPT ![p] = "search"]
                     /\ result' = [result EXCEPT ![p] = Pending]
                     /\ sent' = [sent EXCEPT ![p] = << >>]
                     /\ calls' = [calls EXCEPT ![p] =
                                     [search |-> 1, fetch |-> 0,
                                      known |-> /\ result[p].kind = "match"
                                                /\ Hit(lyric_text, result[p].line)]]
    /\ UNCHANGED <<fcall, supplied, stage, config, api, remote, inflight>>

SearchReturn(p) ==
    /\ pc[p] = "search"
    /\ \E resp \in SearchResponses :
         LET found == search_songs(resp)
         IN  IF ~Truthy(found)
             THEN Finish(p, ReturnedNone) /\ UNCHANGED <<songs, idx>>
             ELSE IF found.t # "list"
             THEN /\ Finish(p, Raised("TypeError: not iterable"))
                  /\ UNCHANGED <<songs, idx>>
             ELSE /\ songs' = [songs EXCEPT ![p] = found.v]
                  /\ Continue(p, found.v, 0)
    /\ UNCHANGED <<fcall, supplied, stage, config, api, text, lines, remote,
                   inflight>>

LyricsReturn(p) ==
    /\ pc[p] = "lyrics"
    /\ \E resp \in LyricsResponses :
         LET lyrics_data == get_lyrics(resp)
             song == songs[p][idx[p]]
         IN  IF ~Truthy(lyrics_data)
             THEN Continue(p, songs[p], idx[p]) /\ UNCHANGED lines
             ELSE LET lyric_text == lyrics_data.d.lrc.d.lyric
                  IN  IF lyric_text.t # "str"
                      THEN /\ Finish(p, Raised("AttributeError: split"))
                           /\ UNCHANGED <<lines, idx>>
                      ELSE LET ls == ParsedLyrics[lyric_text]
                               i == scan_lines(text[p], ls)
                           IN  /\ lines' = [lines EXCEPT ![p] = ls]
                               /\ IF Len(ls) < 2 \/ i = 0
                                  THEN Continue(p, songs[p], idx[p])
                                  ELSE /\ Finish(p, Match(DictGet(song, "name", UnknownSong),
                                                          ls[i], ls[i + 1],
                                                          DictGet(song, "id", PyNone)))
                                       /\ UNCHANGED idx
    /\ UNCHANGED <<fcall, supplied, stage, config, api, text, songs, remote, inflight>>

ProviderReturn(p) ==
    /\ pc[p] = "provider"
    /\ \E r \in {"raise", "none", "provider_id"} :
         /\ pc' = [pc EXCEPT ![p] = AfterProvider(r).pc]
         /\ sent' = [sent EXCEPT ![p] = sent[p] \o AfterProvider(r).send]
    /\ lines' = [lines EXCEPT ![p] = << >>]
    /\ songs' = [songs EXCEPT ![p] = << >>]
    /\ idx' = [idx EXCEPT ![p] = 0]
    /\ UNCHANGED <<fcall, supplied, stage, config, api, text, result, calls,
                   remote, inflight>>

PersonaReturn(p) ==
    /\ pc[p] = "persona"
    /\ \E r \in {"raise", "none", "no_prompt", "prompt"} :
         /\ pc' = [pc EXCEPT ![p] = AfterPersona(r).pc]
         /\ sent' = [sent EXCEPT ![p] = sent[p] \o AfterPersona(r).send]
    /\ UNCHANGED <<fcall, supplied, stage, config, api, text, songs, idx, lines,
                   result, calls, remote, inflight>>

LlmReturn(p) ==
    /\ pc[p] = "llm"
    /\ \E r \in {"raise", "none", "empty", "completion"} :
         sent' = [sent EXCEPT ![p] = sent[p] \o AfterLlm(r)]
    /\ pc' = [pc EXCEPT ![p] = "done"]
    /\ UNCHANGED <<fcall, supplied, stage, config, api, text, songs, idx, lines,
                   result, calls, remote, inflight>>

Step(p) ==
    \/ Invoke(p)
    \/ SearchReturn(p)
    \/ LyricsReturn(p)
    \/ ProviderReturn(p)
    \/ PersonaReturn(p)
    \/ LlmReturn(p)

Next == Initialize \/ \E p \in Procs : Step(p)

Spec == Init /\ [][Next]_vars

SpecConc == InitConc /\ [][Next]_vars

NextCfg == Construct \/ Next

SpecCfg == InitCfg /\ [][NextCfg]_vars

\* every await of the handler returns: the HTTP requests within their
\* ClientTimeout, the host's calls by answering or raising
Returns(p) ==
    \/ SearchReturn(p)
    \/ LyricsReturn(p)
    \/ ProviderReturn(p)
    \/ PersonaReturn(p)
    \/ LlmReturn(p)

FairSpec == Spec /\ \A p \in Procs : WF_vars(Returns(p))

-----------------------------------------------------------------------------
(* The pure functions, each called once on an argument from a bounded set *)

SimilarityCalls ==
    UNION {{[fn |-> "calculate_similarity", str1 |-> a, str2 |-> b, done |-> FALSE] :
              b \in OtherStrings \cup {a}} : a \in Strings}

ParseCalls ==
    {[fn |-> "parse_lyrics", lyric_text |-> t, done |-> FALSE] : t \in LyricTexts}

ExtractCalls ==
    {[fn |-> "_extract_lyric_from_command", message |-> m, done |-> FALSE] :
       m \in Messages}

InitPure ==
    /\ fcall \in SimilarityCalls \cup ParseCalls \cup ExtractCalls
    /\ supplied = NoneConfig
    /\ config = Unset
    /\ stage = "new"
    /\ api = Unset
    /\ remote = "small"
    /\ inflight = 1
    /\ Idle

Return(value) ==
    /\ ~fcall.done
    /\ fcall' = [fn |-> fcall.fn, arg |-> fcall, done |-> TRUE, ret |-> value]
    /\ UNCHANGED <<supplied, stage, config, api, pc, text, songs, idx, lines,
                   result, sent, calls, remote, inflight>>

CalculateSimilarity ==
    /\ fcall.fn = "calculate_similarity"
    /\ ~fcall.done
    /\ Return(calculate_similarity(fcall.str1, fcall.str2))

ParseLyrics ==
    /\ fcall.fn = "parse_lyrics"
    /\ ~fcall.done
    /\ Return(parse_lyrics(fcall.lyric_text))

ExtractLyric ==
    /\ fcall.fn = "_extract_lyric_from_command"
    /\ ~fcall.done
    /\ Return(extract_lyric_from_command(fcall.message))

NextPure == CalculateSimilarity \/ ParseLyrics \/ ExtractLyric

SpecPure == InitPure /\ [][NextPure]_vars

Returned(fn) == fcall.fn = fn /\ fcall.done

-----------------------------------------------------------------------------
(* Claims *)

\* the positions of `lines` other than the last whose line is similar enough
\* to the user's text
EligibleHits(p) ==
    {i \in 1..(Len(lines[p]) - 1) : Hit(text[p], lines[p][i])}

\* the songs of the search result the loop has to fetch lyrics for, up to
\* position k
Fetchable(p, k) ==
    {j \in 1..k : songs[p][j].t = "dict" /\ Truthy(DictGet(songs[p][j], "id", PyNone))}

\* C1: find_matching_lyric is first-match-wins by scan order.  When it has
\* returned a match, the matched line is the lowest-indexed line, the last
\* line excluded, of the current song that reaches the threshold, the next
\* line is the one after it, and the song is the one the loop is at; as long
\* as it has returned no match, the lines parsed last contain no such line
\* (a hit on the last line is no match), and every song of the search result
\* before the current one that has an id was fetched.
C1_FirstMatchWins ==
    \A p \in Procs :
      /\ pc[p] = "provider" =>
           /\ result[p].kind = "match"
           /\ \E i \in EligibleHits(p) :
                /\ \A j \in EligibleHits(p) : i <= j
                /\ i < Len(lines[p])
                /\ result[p].line = lines[p][i]
                /\ result[p].next_line = lines[p][i + 1]
           /\ result[p].song_id = DictGet(songs[p][idx[p]], "id", PyNone)
      /\ (pc[p] \in {"search", "lyrics"} \/ result[p].kind \in {"none", "raised"}) =>
           EligibleHits(p) = {}
      /\ pc[p] \in {"lyrics", "provider"} =>
           /\ idx[p] \in Fetchable(p, idx[p])
           /\ calls[p].fetch = Cardinality(Fetchable(p, idx[p]))

\* C1 witness: the first line reaching the threshold was returned although a
\* later line of the same song is the better match
C1_Witness ==
    \E p \in Procs :
      /\ pc[p] = "provider"
      /\ Cardinality(EligibleHits(p)) = 2
      /\ result[p].line = <<"b">>
      /\ result[p].next_line = <<"A", " ", "b">>
      /\ idx[p] = 2

\* C2 as stated: for every non-empty s, calculate_similarity(s, s) is 1.0 and
\* calculate_similarity(s, "") is 0.0
C2_AsStated ==
    Returned("calculate_similarity") =>
      /\ (fcall.arg.str1 # << >> /\ fcall.arg.str2 = fcall.arg.str1) => IsOne(fcall.ret)
      /\ (fcall.arg.str1 # << >> /\ fcall.arg.str2 = << >>) => IsZero(fcall.ret)

\* C2 amended: for every s with a character other than the space,
\* calculate_similarity(s, s) is 1.0; for every non-empty s made of spaces
\* only it is 0.0; and for every non-empty s, calculate_similarity(s, "") is
\* 0.0
C2_SelfSimilarity ==
    Returned("calculate_similarity") =>
      /\ (RemoveSpaces(fcall.arg.str1) # << >> /\ fcall.arg.str2 = fcall.arg.str1)
           => IsOne(fcall.ret)
      /\ (/\ fcall.arg.str1 # << >>
          /\ RemoveSpaces(fcall.arg.str1) = << >>
          /\ fcall.arg.str2 = fcall.arg.str1) => IsZero(fcall.ret)
      /\ (fcall.arg.str1 # << >> /\ fcall.arg.str2 = << >>) => IsZero(fcall.ret)

\* C2 witness: a string of mixed case with a space, compared with itself
C2_Witness ==
    /\ Returned("calculate_similarity")
    /\ fcall.arg.str1 = <<"A", " ", "b">>
    /\ fcall.arg.str2 = <<"A", " ", "b">>
    /\ IsOne(fcall.ret)

\* C3: no failure of the remote service makes find_matching_lyric raise; the
\* only exception it lets out is the one of a plugin that was not initialized
C3_NoExceptionFromRemoteFailure ==
    \A p \in Procs :
      result[p].kind = "raised" => result[p].exc = "AttributeError: search_songs"

\* C4: invocations for the same text that are in flight at the same time
\* issue one search call in total
C4_Coalescing ==
    \A p, q \in Procs :
      (p # q /\ pc[p] \in {"search", "lyrics"} /\ pc[q] \in {"search", "lyrics"}
         /\ text[p] = text[q])
        => calls[p].search + calls[q].search <= 1

\* C5: a resolve whose text matches the line the resolve before it fetched
\* and matched (a line of those lyrics that is not the last) issues no search
\* call and no lyric request
C5_CacheFirst ==
    \A p \in Procs :
      calls[p].known => calls[p].search = 0 /\ calls[p].fetch = 0

ExpectedExample ==
    << <<"L", "i", "n", "e", " ", "O", "n", "e">>,
       <<"L", "i", "n", "e", " ", "T", "w", "o">> >>

\* C6: parse_lyrics returns no empty line and no line that begins with a
\* metadata label, and parses the example of the specification to
\* ["Line One", "Line Two"]
C6_ParseDropsMetadata ==
    Returned("parse_lyrics") =>
      /\ \A n \in 1..Len(fcall.ret) :
           fcall.ret[n] # << >> /\ ~StartsWith(fcall.ret[n], MetadataLabel)
      /\ fcall.arg.lyric_text = ExampleLyric => fcall.ret = ExpectedExample

Given(key, default) ==
    IF OrEmpty(supplied)[key] = Absent THEN default ELSE OrEmpty(supplied)[key]

\* C7: the config is validated when the plugin is constructed and never
\* clamped.  A plugin that exists has the threshold it was given (0.6 when
\* given none), which lies in [0, 1], the max_search_results it was given (5
\* when given none), which is an integer of at least 1, and the api_url it
\* was given (the default when given none), which begins with http:// or
\* https://; a construction that raised leaves no plugin, and no handler runs
\* without one.
C7_ValidatedNeverClamped ==
    /\ stage \in {"constructed", "initialized"} =>
         /\ config.similarity_threshold.t = "float"
         /\ config.similarity_threshold.x10 \in 0..10
         /\ config.similarity_threshold.x10 =
              Given("similarity_threshold", DEFAULT_SIMILARITY_THRESHOLD).x10
         /\ config.max_search_results = Given("max_search_results", DEFAULT_MAX_SEARCH_RESULTS)
         /\ config.max_search_results.t \in {"int", "bool"}
         /\ config.max_search_results.x10 >= 10
         /\ config.api_url = Given("api_url", DEFAULT_API_URL)
         /\ config.api_url.t = "str"
         /\ StartsWith(config.api_url.s, Http) \/ StartsWith(config.api_url.s, Https)
    /\ stage \in {"new", "failed"} =>
         /\ config = Unset
         /\ \A p \in Procs : pc[p] = "idle"

\* C7 witness: a handler is waiting for its search under a plugin built from
\* a config that gives the threshold as the integer 1
C7_Witness ==
    /\ stage = "initialized"
    /\ supplied # NoneConfig
    /\ OrEmpty(supplied).similarity_threshold = PyInt(1)
    /\ config.similarity_threshold = PyFloat(10)
    /\ \E p \in Procs : pc[p] = "search"

\* C8: every resolve that has issued its search ends with a match or with
\* None
C8_EndsWithMatchOrNone ==
    \A p \in Procs : (pc[p] = "search") ~> (result[p].kind \in {"match", "none"})

\* what does hold of C8: every resolve that has issued its search ends, with
\* a match, with None or with an exception
EveryResolveEnds ==
    \A p \in Procs :
      (pc[p] = "search") ~> (result[p].kind \in {"match", "none", "raised"})

\* C9: one find_matching_lyric issues one search call and at most
\* max_search_results lyric requests, and none when the search found nothing
C9_CallBudget ==
    \A p \in Procs :
      /\ pc[p] \in {"search", "lyrics", "provider"} => calls[p].search = 1
      /\ calls[p].search <= 1
      /\ calls[p].fetch <= Limit
      /\ (result[p].kind = "none" /\ songs[p] = << >>) => calls[p].fetch = 0

\* C10: every invocation of cmd_lyric_match sends exactly one message, and
\* sends it last: nothing while it waits on an await, one message once it is
\* over, which is the usage hint when the lyric text is empty (and then no
\* request was issued) and the failure notice when find_matching_lyric raised
C10_OneMessage ==
    \A p \in Procs :
      /\ pc[p] = "done" => Len(sent[p]) = 1
      /\ pc[p] # "done" => sent[p] = << >>
      /\ (pc[p] = "done" /\ text[p] = << >>) =>
           sent[p] = <<"usage">> /\ calls[p] = NoCalls
      /\ (pc[p] = "done" /\ result[p].kind = "raised") => sent[p] = <<"failed">>
      /\ (pc[p] = "done" /\ result[p].kind = "none") => sent[p] = <<"no_match">>

\* C10 witness: the LLM call raised after a match, and the one message is the
\* notice of that failure
C10_Witness ==
    \E p \in Procs :
      /\ pc[p] = "done"
      /\ result[p].kind = "match"
      /\ sent[p] = <<"llm_failed">>

=============================================================================
